---------------------------- MODULE Spec2Model ----------------------------
(***************************************************************************)
(* A model of the walk-forward backtest engine of src/testing.py:          *)
(* run_backtest with its helpers find_recent_swings, compute_fib_levels,   *)
(* touched_level and calc_lots_from_risk.                                  *)
(*                                                                         *)
(* Numbers.  The source computes in floating point; the model computes in  *)
(* exact fixed point:                                                      *)
(*   - prices (high, low, close, atr, entry, sl, tp) are integers in one   *)
(*     price unit; the rows of the model are chosen so that 0.5 * atr and  *)
(*     (entry - sl) * 1.8 are whole numbers;                               *)
(*   - a position size is counted in millionths of a lot, the precision of *)
(*     round(lots_adj, 6); LOT_STEP = 0.001 lots is 1000 of them;          *)
(*   - money (equity, pnl) is counted in price unit x size unit, so that   *)
(*     pnl = price difference x size exactly;                              *)
(*   - fractions of the configuration are kept as scaled integers          *)
(*     (percent, per mille, tenths), named below.                          *)
(*                                                                         *)
(* Input.  df is the bar series with its indicator columns.  The code      *)
(* receives it whole; the model reveals it row by row, at the moment the   *)
(* code first reads a row it has not read before (ReadBar) or first needs  *)
(* to know that there is no further row (EndOfData).  The code reads the   *)
(* rows in index order, so this is the same set of runs.                   *)
(*                                                                         *)
(* The module also holds a model of run_backtest of                        *)
(* src/backtest_strategy.py (variable bt, specification SpecStrategy),     *)
(* which has its own frame, given whole from the start.                    *)
(***************************************************************************)
EXTENDS Integers, Sequences, FiniteSets, TLC

\* ---- CONFIG (src/testing.py:27-41) ----
\* RISK_PER_TRADE = 0.06, in percent
RISK_PER_TRADE == 6
\* RR = 1.8, in tenths
RR == 18
RSI_OVERSOLD == 30
RSI_OVERBOUGHT == 70
\* FIB_LEVELS = [0.618, 0.5], in per mille, in list order
\* (a changed copy: the list in the other order)
FIB_LEVELS_Reversed == <<500, 618>>
FIB_LEVELS == <<618, 500>>
\* FIB_TOL_PCT = 0.002, in per mille
FIB_TOL_PCT == 2
\* DAILY_MAX_LOSS_PCT = 0.10, in percent
DAILY_MAX_LOSS_PCT == 10
\* LOT_STEP = 0.001 lots, in size units
LOT_STEP == 1000

\* ---- Bounds of the model ----
\* Longest series.
NBars == 5
\* EMA_SLOW = 200 and ATR_PERIOD = 14 in the source: the warm-up length,
\* scaled down to the series the model explores.
EMA_SLOW == 1
ATR_PERIOD == 1
\* SWING_LOOKBACK = 200 in the source, scaled down.
SWING_LOOKBACK == 2
\* The forward-scan horizon, 1000 in the source (line 242; 999 = 1000 - 1 at
\* line 298), scaled down.
HORIZON == 3
\* DAILY_MAX_TRADES = 5 in the source, scaled down.
DAILY_MAX_TRADES == 2
\* initial_equity, the parameter of run_backtest, in money units.
initial_equity == 550000

\* The calendar dates a series may span, and the timestamps per date.
Dates == {1, 2}
DayLen == NBars + 2
\* last_trade_day = None
NoDay == 0

\* The price part of a row, with the atr that goes with it, and the other
\* indicator part.  A flat bar, a ranged bar above it whose close is the
\* middle of its range, a flat bar below both with no true range, and a bar
\* that rises off the flat bar, its close half way between its high and the
\* flat bar; an oversold row in an up-trend and an overbought row in a
\* down-trend.
Shapes ==
  { [high |-> 700,  low |-> 700,  close |-> 700,  atr |-> 20],
    [high |-> 1000, low |-> 900,  close |-> 950,  atr |-> 20],
    [high |-> 600,  low |-> 600,  close |-> 600,  atr |-> 0],
    [high |-> 900,  low |-> 750,  close |-> 800,  atr |-> 20] }
\* np.nan: a value no number equals; a comparison with it is False
NaN == 0 - 1
Defined(x) == x # NaN
\* add_indicators, lines 103-104: rs = gain / loss.replace(0, np.nan) and
\* rsi = 100 - 100 / (1 + rs), from the two rolling means of line 101-102
RsiOf(gain, loss) ==
  IF loss = 0 THEN NaN ELSE 100 - (100 * loss) \div (gain + loss)
Inds ==
  { [rsi |-> RsiOf(1, 3), ema50 |-> 2, ema200 |-> 1],
    [rsi |-> RsiOf(3, 1), ema50 |-> 1, ema200 |-> 2] }
\* a window of closes that never fall, in an up-trend
NanInd == [rsi |-> RsiOf(1, 0), ema50 |-> 2, ema200 |-> 1]
\* The rows of a series: the flat bar and the ranged bar with either
\* indicator part, the other two with the oversold one.
Paired(s, n) == s.close \in {600, 800} => n.rsi = 25

\* ---- Arithmetic helpers ----
Abs(x) == IF x < 0 THEN 0 - x ELSE x
Min(a, b) == IF a <= b THEN a ELSE b
Max(a, b) == IF a >= b THEN a ELSE b

\* dict.get(key, default)
Get(f, k, default) == IF k \in DOMAIN f THEN f[k] ELSE default
\* dict[key] = value
Put(f, k, v) == [x \in DOMAIN f \cup {k} |-> IF x = k THEN v ELSE f[x]]

\* backtest_strategy.py is not running
NoRun == [pc |-> "off"]

VARIABLES
  df,               \* the rows read so far, df[i+1] is the code's df.iloc[i]
  eof,              \* TRUE once len(df) = Len(df) is known
  pc,               \* "outer" | "scan" | "close"
  idx,              \* the outer loop's index
  equity,
  equity_curve,     \* sequence of <<datetime, equity>>
  trades,           \* the trade log
  daily_trades,
  daily_loss_stop,
  last_trade_day,
  sim,              \* the locals of the trade being simulated
  branch,           \* history: how the last outer bar was handled
  hist,             \* history: one record per logged trade
  bars,             \* history: one record per finished pass of the outer loop:
                    \* the row, how the pass ended, the side of the signal it
                    \* generated and the size the sizer returned, if any
  returned,         \* what the earlier calls of run_backtest on df returned
  bt                \* backtest_strategy.py: the frame and the locals of its
                    \* run_backtest, with a history of setups and passes

vars == <<bt, returned, df, eof, pc, idx, equity, equity_curve, trades, daily_trades,
          daily_loss_stop, last_trade_day, sim, branch, hist, bars>>

\* df.iloc[i]
Row(i) == df[i + 1]
\* dtstamp.date()
Date(dt) == dt \div DayLen

\* ---- find_recent_swings (lines 114-123) ----
SwingStart(i) == Max(0, i - SWING_LOOKBACK)
SwingWindow(i) == SwingStart(i) .. i
find_recent_swings(d, i) ==
  LET win == SwingWindow(i)
      hi  == CHOOSE k \in win : /\ \A m \in win : d[m + 1].high <= d[k + 1].high
                                /\ \A m \in win : d[m + 1].high = d[k + 1].high => k <= m
      lo  == CHOOSE k \in win : /\ \A m \in win : d[m + 1].low >= d[k + 1].low
                                /\ \A m \in win : d[m + 1].low = d[k + 1].low => k <= m
  IN  [swing_high |-> d[hi + 1].high, hi_idx |-> hi,
       swing_low  |-> d[lo + 1].low,  lo_idx |-> lo]

\* ---- compute_fib_levels (lines 125-127): the level of one ratio, x 1000 ----
compute_fib_level(swing_high, swing_low, lvl) ==
  1000 * swing_high - (swing_high - swing_low) * lvl

\* ---- touched_level (lines 129-131); level_val is x 1000 ----
touched_level(price, level_val) ==
  Abs(1000 * price - level_val) * 1000 <= level_val * FIB_TOL_PCT

\* ---- calc_lots_from_risk (lines 133-143), in size units ----
\* steps = floor((risk_amount / price_diff) / LOT_STEP); the result is a
\* whole number of size units, which round(lots_adj, 6) leaves as it is.
\* (a changed copy: the size rounded up to the next lot step)
calc_lots_RoundedUp(eq, entry, sl) ==
  LET price_diff == Abs(entry - sl)
      steps == (eq * RISK_PER_TRADE) \div (100 * price_diff * LOT_STEP) + 1
  IN  IF price_diff <= 0 THEN 1000
      ELSE Max(LOT_STEP, steps * LOT_STEP)
\* (a changed copy: the raw size is not floored to the lot step)
calc_lots_Unfloored(eq, entry, sl) ==
  LET price_diff == Abs(entry - sl)
      lots == (eq * RISK_PER_TRADE) \div (100 * price_diff)
  IN  IF price_diff <= 0 THEN 1000
      ELSE Max(LOT_STEP, lots)
calc_lots_from_risk(eq, entry, sl) ==
  LET price_diff == Abs(entry - sl)
      steps == (eq * RISK_PER_TRADE) \div (100 * price_diff * LOT_STEP)
  IN  IF price_diff <= 0 THEN 1000
      ELSE Max(LOT_STEP, steps * LOT_STEP)

\* ---- signal generation (lines 197-216) ----
NoSignal == [side |-> "None", entry |-> 0, sl |-> 0, tp |-> 0, level |-> 0]
\* (a changed copy: the oversold test is strict)
BuyCond_Strict(row) ==
  Defined(row.rsi) /\ row.rsi < RSI_OVERSOLD /\ row.ema50 > row.ema200
\* (a changed copy: an undefined rsi is read as a low number)
BuyCond_Plain(row) == row.rsi <= RSI_OVERSOLD /\ row.ema50 > row.ema200
BuyCond(row) ==
  Defined(row.rsi) /\ row.rsi <= RSI_OVERSOLD /\ row.ema50 > row.ema200
SellCond(row) ==
  Defined(row.rsi) /\ row.rsi >= RSI_OVERBOUGHT /\ row.ema50 < row.ema200
\* (a changed copy: the buffer is added to the swing low)
BuySignal_StopAbove(row, sw, lvl) ==
  LET entry == row.close
      sl == sw.swing_low + (row.atr \div 2)
  IN  [side |-> "BUY", entry |-> entry, sl |-> sl,
       tp |-> entry + ((entry - sl) * RR) \div 10, level |-> lvl]
BuySignal(row, sw, lvl) ==
  LET entry == row.close
      sl == sw.swing_low - (row.atr \div 2)
  IN  [side |-> "BUY", entry |-> entry, sl |-> sl,
       tp |-> entry + ((entry - sl) * RR) \div 10, level |-> lvl]
SellSignal(row, sw, lvl) ==
  LET entry == row.close
      sl == sw.swing_high + (row.atr \div 2)
  IN  [side |-> "SELL", entry |-> entry, sl |-> sl,
       tp |-> entry - ((sl - entry) * RR) \div 10, level |-> lvl]
\* the for loop over fibs.items(), from position n of FIB_LEVELS
RECURSIVE SignalFrom(_, _, _)
SignalFrom(row, sw, n) ==
  IF n > Len(FIB_LEVELS) THEN NoSignal
  ELSE LET lvl == FIB_LEVELS[n]
           lvl_val == compute_fib_level(sw.swing_high, sw.swing_low, lvl)
       IN  IF touched_level(row.close, lvl_val) /\ BuyCond(row)
             THEN BuySignal(row, sw, lvl)
           ELSE IF touched_level(row.close, lvl_val) /\ SellCond(row)
             THEN SellSignal(row, sw, lvl)
           ELSE SignalFrom(row, sw, n + 1)
MakeSignal(d, i) == SignalFrom(d[i + 1], find_recent_swings(d, i), 1)

\* ---- the outer loop's tests ----
\* line 158
Warm(i) == i < ATR_PERIOD \/ i < EMA_SLOW
\* lines 169-173: the daily reset, as the three values after it
ResetTrades(day) ==
  IF day # last_trade_day THEN Put(daily_trades, day, 0) ELSE daily_trades
ResetLossStop(day) ==
  IF day # last_trade_day THEN Put(daily_loss_stop, day, FALSE) ELSE daily_loss_stop
\* (a changed copy: the loss stop is never consulted)
LossStopped_Never(day) == FALSE
\* line 175
LossStopped(day) == Get(ResetLossStop(day), day, FALSE)
\* (a changed copy: the cap test is > instead of >=)
CapReached_Late(day) == Get(ResetTrades(day), day, 0) > DAILY_MAX_TRADES
\* line 180
CapReached(day) == Get(ResetTrades(day), day, 0) >= DAILY_MAX_TRADES
\* (a changed copy: a size of one lot step is rejected too)
LotsRejected_AtMinimum(lots) == lots <= LOT_STEP
\* line 224
LotsRejected(lots) == lots <= 0

\* ---- the forward scan (lines 242-294) ----
\* range(idx+1, min(len(df), idx + 1000)): its end, for a series of n rows
\* (a changed copy: the scan starts at the signal row)
ScanStart_AtSignal(i) == i
\* range(idx+1, ...): the first row of the forward scan
ScanStart(i) == i + 1
ScanStop(n, i) == Min(n, i + HORIZON)
\* df.iloc[min(len(df)-1, idx+999)]: its index
\* (a changed copy: one row short of the horizon row)
LastIdx_Short(n, i) == Min(n - 1, i + HORIZON - 2)
LastIdx(n, i) == Min(n - 1, i + HORIZON - 1)
\* (a changed copy: the take-profit test is strict)
BuyTpHit_Strict(l, tp) == l < tp
BuyTpHit(l, tp) == l <= tp
BuyUnusualSlHit(h, sl, entry) == h >= sl /\ sl > entry
BuySlHit(l, sl) == l <= sl
SellTpHit(h, tp) == h >= tp
SellSlHit(l, sl) == l <= sl
\* (a changed copy: the SELL stop is tested on the bar's high)
ScanHit_SellStopOnHigh(side, h, l, entry, sl, tp) ==
  IF side = "BUY"
    THEN IF BuyTpHit(l, tp) THEN "TP"
         ELSE IF BuyUnusualSlHit(h, sl, entry) THEN "SL"
         ELSE IF BuySlHit(l, sl) THEN "SL"
         ELSE "None"
    ELSE IF SellTpHit(h, tp) THEN "TP"
         ELSE IF h >= sl THEN "SL"
         ELSE "None"
\* (a changed copy: the BUY stop is tested before the BUY target)
ScanHit_StopFirst(side, h, l, entry, sl, tp) ==
  IF side = "BUY"
    THEN IF BuySlHit(l, sl) THEN "SL"
         ELSE IF BuyTpHit(l, tp) THEN "TP"
         ELSE "None"
    ELSE IF SellTpHit(h, tp) THEN "TP"
         ELSE IF SellSlHit(l, sl) THEN "SL"
         ELSE "None"
\* which exit, if any, bar (h, l) gives: "TP", "SL" or "None"
ScanHit(side, h, l, entry, sl, tp) ==
  IF side = "BUY"
    THEN IF BuyTpHit(l, tp) THEN "TP"
         ELSE IF BuyUnusualSlHit(h, sl, entry) THEN "SL"
         ELSE IF BuySlHit(l, sl) THEN "SL"
         ELSE "None"
    ELSE IF SellTpHit(h, tp) THEN "TP"
         ELSE IF SellSlHit(l, sl) THEN "SL"
         ELSE "None"
\* lines 255, 263, 269, 276, 282, 302
Pnl(side, entry, exit, lots) ==
  IF side = "BUY" THEN (exit - entry) * lots ELSE (entry - exit) * lots
\* line 286
Unreal(side, close, entry, lots) ==
  IF side = "BUY" THEN (close - entry) * lots ELSE (entry - close) * lots
\* line 287
InitialRisk(entry, sl, lots) == Abs(entry - sl) * lots
\* (a changed copy: the test forgets that trailing is already active)
TrailCond_Repeat(active, unreal, risk) == unreal >= risk
\* line 288
TrailCond(active, unreal, risk) == ~active /\ unreal >= risk
\* (a changed copy: the stop is left where it was)
StopAfterTrail_Kept(entry, sl, trail) == sl
\* lines 288-294: the stop after the trailing test of one row
StopAfterTrail(entry, sl, trail) == IF trail THEN entry ELSE sl

\* ---- the ledger and the daily bookkeeping (lines 304-326) ----
\* (a changed copy: the pnl is not booked)
NewEquity_Unbooked(eq, pnl) == eq
\* line 305
NewEquity(eq, pnl) == eq + pnl
RECURSIVE DayPnlFrom(_, _, _)
DayPnlFrom(ts, day, n) ==
  IF n > Len(ts) THEN 0
  ELSE (IF Date(ts[n].entry_time) = day THEN ts[n].pnl ELSE 0)
       + DayPnlFrom(ts, day, n + 1)
\* line 324
DayPnl(ts, day) == DayPnlFrom(ts, day, 1)
\* line 325
LossExceeded(day_pnl) == day_pnl * 100 <= 0 - initial_equity * DAILY_MAX_LOSS_PCT

\* line 154: the outer index after the pass that opened a trade at row i and
\* whose scan stopped at row j; the for loop steps on, whatever j is
\* (a changed copy: the loop resumes after the row the scan stopped at)
AfterTrade_SkipToExit(i, j) == Max(i, j) + 1
AfterTrade(i, j) == i + 1

\* ---- the state machine ----
NoSim ==
  [side |-> "None", entry_price |-> 0, target_sl |-> 0, target_tp |-> 0,
   lots |-> 0, j |-> 0, trailing_active |-> FALSE,
   exit_price |-> 0, exit_time |-> 0, exit_reason |-> "None", pnl |-> 0,
   init_sl |-> 0, level |-> 0, scanned |-> <<>>, moved |-> {}]

Init ==
  /\ df = <<>>
  /\ eof = FALSE
  /\ pc = "outer"
  /\ idx = 0
  /\ equity = initial_equity
  /\ equity_curve = <<>>
  /\ trades = <<>>
  /\ daily_trades = <<>>
  /\ daily_loss_stop = <<>>
  /\ last_trade_day = NoDay
  /\ sim = NoSim
  /\ branch = "init"
  /\ hist = <<>>
  /\ bars = <<>>
  /\ returned = <<>>
  /\ bt = NoRun

\* The code is about to read a row, or the length, that is not yet known.
Needs ==
  /\ ~eof
  /\ \/ pc = "outer" /\ idx = Len(df)
     \/ pc = "scan" /\ sim.j = Len(df) /\ sim.j < idx + HORIZON

\* The timestamps a next row may carry: strictly later, the same date or the
\* next one.
NextTimes ==
  IF df = <<>> THEN {DayLen}
  ELSE LET last == df[Len(df)].datetime
       IN  {last + 1} \cup
           (IF Date(last) + 1 \in Dates THEN {(Date(last) + 1) * DayLen} ELSE {})

ReadBar ==
  /\ Needs
  /\ Len(df) < NBars
  /\ \E s \in Shapes, n \in Inds, t \in NextTimes :
       /\ Paired(s, n)
       \* the indicators of a row inside the warm-up are never read: one
       \* indicator part stands for all
       /\ Warm(Len(df)) => n.rsi = RsiOf(1, 3)
       /\ df' = Append(df, [datetime |-> t, high |-> s.high, low |-> s.low,
                            close |-> s.close, rsi |-> n.rsi, ema50 |-> n.ema50,
                            ema200 |-> n.ema200, atr |-> s.atr])
  /\ UNCHANGED <<bt, returned, eof, pc, idx, equity, equity_curve, trades, daily_trades,
                 daily_loss_stop, last_trade_day, sim, branch, hist, bars>>

EndOfData ==
  /\ Needs
  /\ eof' = TRUE
  /\ UNCHANGED <<bt, returned, df, pc, idx, equity, equity_curve, trades, daily_trades,
                 daily_loss_stop, last_trade_day, sim, branch, hist, bars>>

\* One pass of the outer loop that ends in "continue": a flat equity sample.
OuterReady == pc = "outer" /\ idx < Len(df)
\* (a changed copy: every trade is sized from the starting equity)
SizingEquity_Initial == initial_equity
\* line 223: the equity handed to the sizer
SizingEquity == equity
\* the history record of such a pass
FlatPass(why) ==
  LET signal == IF why \in {"no_signal", "skip_size"} THEN MakeSignal(df, idx)
                ELSE NoSignal
  IN  [idx |-> idx, why |-> why, side |-> signal.side,
       lots |-> IF signal.side = "None" THEN 0
                ELSE calc_lots_from_risk(SizingEquity, signal.entry, signal.sl)]
\* (a changed copy: the pass ends without appending its sample)
FlatSample_NoSample(why) ==
  /\ idx' = idx + 1
  /\ branch' = why
  /\ bars' = Append(bars, FlatPass(why))
  /\ UNCHANGED <<bt, returned, df, eof, pc, equity, equity_curve, trades, sim, hist>>
FlatSample(why) ==
  /\ equity_curve' = Append(equity_curve, <<Row(idx).datetime, equity>>)
  /\ idx' = idx + 1
  /\ branch' = why
  /\ bars' = Append(bars, FlatPass(why))
  /\ UNCHANGED <<bt, returned, df, eof, pc, equity, trades, sim, hist>>
DayOf(i) == Date(Row(i).datetime)
AfterReset ==
  /\ daily_trades' = ResetTrades(DayOf(idx))
  /\ daily_loss_stop' = ResetLossStop(DayOf(idx))
  /\ last_trade_day' = DayOf(idx)

\* lines 158-160
WarmupBar ==
  /\ OuterReady
  /\ Warm(idx)
  /\ FlatSample("warmup")
  /\ UNCHANGED <<daily_trades, daily_loss_stop, last_trade_day>>

\* lines 168-177 (ALLOWED_HOURS is empty: the time filter never applies)
LossStopBar ==
  /\ OuterReady
  /\ ~Warm(idx)
  /\ LossStopped(DayOf(idx))
  /\ AfterReset
  /\ FlatSample("loss_stop")

\* lines 179-182
CapBar ==
  /\ OuterReady
  /\ ~Warm(idx)
  /\ ~LossStopped(DayOf(idx))
  /\ CapReached(DayOf(idx))
  /\ AfterReset
  /\ FlatSample("cap")

\* lines 184-220 (find_recent_swings returns None only for an empty window,
\* and the window always holds row idx)
NoSignalBar ==
  /\ OuterReady
  /\ ~Warm(idx)
  /\ ~LossStopped(DayOf(idx))
  /\ ~CapReached(DayOf(idx))
  /\ MakeSignal(df, idx).side = "None"
  /\ AfterReset
  /\ FlatSample("no_signal")

\* lines 222-240: size the signal; skip it, or start the forward scan
OpenTrade ==
  /\ OuterReady
  /\ ~Warm(idx)
  /\ ~LossStopped(DayOf(idx))
  /\ ~CapReached(DayOf(idx))
  /\ LET signal == MakeSignal(df, idx)
         lots == calc_lots_from_risk(SizingEquity, signal.entry, signal.sl)
     IN  /\ signal.side # "None"
         /\ AfterReset
         /\ IF LotsRejected(lots)
              THEN FlatSample("skip_size")
              ELSE /\ sim' = [NoSim EXCEPT !.side = signal.side,
                                           !.entry_price = signal.entry,
                                           !.target_sl = signal.sl,
                                           !.target_tp = signal.tp,
                                           !.lots = lots,
                                           !.j = ScanStart(idx),
                                           !.init_sl = signal.sl,
                                           !.level = signal.level]
                   /\ pc' = "scan"
                   /\ branch' = "open"
                   /\ UNCHANGED <<bt, returned, df, eof, idx, equity, equity_curve, trades,
                                  hist, bars>>

\* lines 242-294: one pass of the inner loop over row j
ScanBar ==
  /\ pc = "scan"
  /\ sim.j < ScanStop(Len(df), idx)
  /\ LET r == Row(sim.j)
         hit == ScanHit(sim.side, r.high, r.low, sim.entry_price,
                        sim.target_sl, sim.target_tp)
         exit == IF hit = "TP" THEN sim.target_tp ELSE sim.target_sl
         unreal == Unreal(sim.side, r.close, sim.entry_price, sim.lots)
         risk == InitialRisk(sim.entry_price, sim.target_sl, sim.lots)
         trail == TrailCond(sim.trailing_active, unreal, risk)
         seen == Append(sim.scanned, [j |-> sim.j, sl |-> sim.target_sl, hit |-> hit])
     IN  IF hit # "None"
           THEN /\ sim' = [sim EXCEPT !.exit_price = exit,
                                      !.exit_time = r.datetime,
                                      !.exit_reason = hit,
                                      !.pnl = Pnl(sim.side, sim.entry_price, exit, sim.lots),
                                      !.scanned = seen]
                /\ pc' = "close"
           ELSE /\ sim' = [sim EXCEPT !.j = sim.j + 1,
                                      !.trailing_active = sim.trailing_active \/ trail,
                                      !.target_sl = StopAfterTrail(sim.entry_price,
                                                                   sim.target_sl, trail),
                                      !.moved = IF trail THEN sim.moved \cup {sim.j}
                                                ELSE sim.moved,
                                      !.scanned = seen]
                /\ pc' = "scan"
  /\ UNCHANGED <<bt, returned, df, eof, idx, equity, equity_curve, trades, daily_trades,
                 daily_loss_stop, last_trade_day, branch, hist, bars>>

\* lines 296-326: close at the last close if nothing was hit, then book the
\* trade: equity, equity curve, trade log, the day's counter and loss stop
CloseTrade ==
  /\ \/ pc = "close"
     \/ pc = "scan" /\ ~Needs /\ sim.j >= ScanStop(Len(df), idx)
  /\ LET nohit == sim.exit_reason = "None"
         last == Row(LastIdx(Len(df), idx))
         exit_price == IF nohit THEN last.close ELSE sim.exit_price
         exit_time == IF nohit THEN last.datetime ELSE sim.exit_time
         exit_reason == IF nohit THEN "NO_HIT" ELSE sim.exit_reason
         pnl == IF nohit THEN Pnl(sim.side, sim.entry_price, exit_price, sim.lots)
                ELSE sim.pnl
         day == DayOf(idx)
         trade == [entry_time |-> Row(idx).datetime, exit_time |-> exit_time,
                   side |-> sim.side, entry |-> sim.entry_price,
                   sl |-> sim.target_sl, tp |-> sim.target_tp,
                   lots |-> sim.lots, pnl |-> pnl, reason |-> exit_reason]
         logged == Append(trades, trade)
     IN  /\ equity' = NewEquity(equity, pnl)
         /\ equity_curve' = Append(equity_curve, <<exit_time, NewEquity(equity, pnl)>>)
         /\ trades' = logged
         /\ daily_trades' = Put(daily_trades, day, Get(daily_trades, day, 0) + 1)
         /\ daily_loss_stop' = IF LossExceeded(DayPnl(logged, day))
                                 THEN Put(daily_loss_stop, day, TRUE)
                                 ELSE daily_loss_stop
         /\ hist' = Append(hist, [idx |-> idx, equity_before |-> equity,
                                  init_sl |-> sim.init_sl, exit_price |-> exit_price,
                                  level |-> sim.level,
                                  scanned |-> sim.scanned, moved |-> sim.moved,
                                  trailing_active |-> sim.trailing_active,
                                  last_idx |-> LastIdx(Len(df), idx),
                                  day_trades_before |-> Get(daily_trades, day, 0)])
  /\ idx' = AfterTrade(idx, sim.j)
  /\ pc' = "outer"
  /\ sim' = NoSim
  /\ branch' = "closed"
  /\ bars' = Append(bars, [idx |-> idx, why |-> "closed", side |-> sim.side,
                            lots |-> sim.lots])
  /\ UNCHANGED <<bt, returned, df, eof, last_trade_day>>

\* lines 328-330: the loop is over and the two frames are returned
Done == pc = "outer" /\ eof /\ idx = Len(df)

Next ==
  \/ ReadBar
  \/ EndOfData
  \/ WarmupBar
  \/ LossStopBar
  \/ CapBar
  \/ NoSignalBar
  \/ OpenTrade
  \/ ScanBar
  \/ CloseTrade

Spec == Init /\ [][Next]_vars

\* ---- signal generation on short series with many kinds of row ----
\* Three rows, known from the start: a first row that only shapes the swing
\* (a wide range, a flat bar, a narrow range), a flat second row whose close,
\* atr and indicators vary, and a third row for the forward scan.
WarmRows ==
  { [high |-> 2000, low |-> 1000, close |-> 1500, atr |-> 20],
    [high |-> 1000, low |-> 1000, close |-> 1000, atr |-> 20],
    [high |-> 1010, low |-> 1000, close |-> 1005, atr |-> 10] }
SignalCloses ==
  { [close |-> 1380, atr |-> 20], [close |-> 1385, atr |-> 20],
    [close |-> 1500, atr |-> 20], [close |-> 1000, atr |-> 20],
    [close |-> 1005, atr |-> 10] }
SignalRsis == {RsiOf(1, 0), 25, 30, 31, 69, 70, 75}
SignalEmas == {<<2, 1>>, <<1, 1>>, <<1, 2>>}
ScanRows ==
  { [high |-> 200,  low |-> 200,  close |-> 200,  atr |-> 20],
    [high |-> 1000, low |-> 1000, close |-> 1000, atr |-> 20],
    [high |-> 2000, low |-> 1000, close |-> 1500, atr |-> 20] }

InitSignal ==
  /\ \E w \in WarmRows, c \in SignalCloses, rsi \in SignalRsis,
        ema \in SignalEmas, s \in ScanRows, n \in Inds \cup {NanInd} :
       df = << [datetime |-> DayLen, high |-> w.high, low |-> w.low,
                close |-> w.close, rsi |-> 50, ema50 |-> 1, ema200 |-> 1,
                atr |-> w.atr],
               [datetime |-> DayLen + 1, high |-> c.close, low |-> c.close,
                close |-> c.close, rsi |-> rsi, ema50 |-> ema[1],
                ema200 |-> ema[2], atr |-> c.atr],
               [datetime |-> DayLen + 2, high |-> s.high, low |-> s.low,
                close |-> s.close, rsi |-> n.rsi, ema50 |-> n.ema50,
                ema200 |-> n.ema200, atr |-> s.atr] >>
  /\ eof = TRUE
  /\ pc = "outer"
  /\ idx = 0
  /\ equity = initial_equity
  /\ equity_curve = <<>>
  /\ trades = <<>>
  /\ daily_trades = <<>>
  /\ daily_loss_stop = <<>>
  /\ last_trade_day = NoDay
  /\ sim = NoSim
  /\ branch = "init"
  /\ hist = <<>>
  /\ bars = <<>>
  /\ returned = <<>>
  /\ bt = NoRun

\* The whole series is known and too short for a date to reach the trade
\* cap: no row is read and CapBar is never enabled.
NextSignal ==
  \/ WarmupBar
  \/ LossStopBar
  \/ NoSignalBar
  \/ OpenTrade
  \/ ScanBar
  \/ CloseTrade

SpecSignal == InitSignal /\ [][NextSignal]_vars

\* ---- run_backtest called again on the same frame ----
\* how many times run_backtest is called on one frame
Calls == 2
\* lines 328-330: the trade log and the equity curve; no equity is nan, so
\* dropna() drops no sample
Returned == [trades |-> trades, equity_curve |-> equity_curve]
\* (a changed copy: the equity of the last call is left over)
EquityAtEntry_LeftOver == equity
\* line 147
EquityAtEntry == initial_equity
\* The call returns (lines 328-330) and run_backtest is entered again with
\* the same df and initial_equity: lines 147-152 set its locals afresh.
CallAgain ==
  /\ Done
  /\ Len(returned) < Calls - 1
  /\ returned' = Append(returned, Returned)
  /\ equity' = EquityAtEntry
  /\ equity_curve' = <<>>
  /\ trades' = <<>>
  /\ daily_trades' = <<>>
  /\ daily_loss_stop' = <<>>
  /\ last_trade_day' = NoDay
  /\ pc' = "outer"
  /\ idx' = 0
  /\ sim' = NoSim
  /\ branch' = "init"
  /\ hist' = <<>>
  /\ bars' = <<>>
  /\ UNCHANGED <<bt, df, eof>>

NextTwice ==
  \/ WarmupBar
  \/ LossStopBar
  \/ NoSignalBar
  \/ OpenTrade
  \/ ScanBar
  \/ CloseTrade
  \/ CallAgain

SpecTwice == InitSignal /\ [][NextTwice]_vars

\* ======================================================================
\* backtest_strategy.py: run_backtest (lines 46-187)
\* Prices are integers, all multiples of 1000 where a level is taken from
\* them; money is in whole units of the account currency; a timestamp is a
\* slot number, SLOTS to a calendar date.
\* ======================================================================
INITIAL_BALANCE == 1000
\* MOVE_PCT = 0.0059, per ten thousand
MOVE_PCT == 59
\* TRIGGER_LEVEL = 0.369 and TP_LEVEL = 1.111, per mille
TRIGGER_LEVEL == 369
TP_LEVEL == 1111
\* TRADE_HOURS: the three times of day a setup bar may carry, as slots
TRADE_HOURS == {0, 2, 3}
SLOTS == 8
\* the number of rows of a frame, range(100, len(df)) and df.iloc[i:i+50]
NRows == 5
FIRST_SETUP == 1
WINDOW == 3

\* dt.date(), dt.weekday() (5 and 6 are the weekend) and the time of day
DateOf(dt) == dt \div SLOTS
Weekday(dt) == DateOf(dt) % 7
TimeOfDay(dt) == dt % SLOTS
\* last_tp_day = None
NoTpDay == 0 - 1

\* The bars of a frame: flat; up and closing up; down and closing down; both
\* ways; far up; far down.
Bars ==
  { [high |-> 100000, low |-> 100000, close |-> 100000],
    [high |-> 101000, low |-> 100000, close |-> 101000],
    [high |-> 100000, low |-> 99000,  close |-> 99000],
    [high |-> 101000, low |-> 99000,  close |-> 100000],
    [high |-> 102000, low |-> 100000, close |-> 100000],
    [high |-> 100000, low |-> 98000,  close |-> 100000] }
\* The first timestamp of a frame: slot 1 of a Thursday or of a Friday.
FirstTimes == {3 * SLOTS + 1, 4 * SLOTS + 1}
\* The timestamps of a frame of n rows that starts at t0 and has its rows
\* one slot apart, but for row gap (if any), which opens the next date.
TimeOfRow(t0, gap, n) ==
  IF gap = 0 \/ n < gap THEN t0 + n
  ELSE (DateOf(t0) + 1) * SLOTS + (n - gap)

\* df.iloc[i:i+50]: the positions of the window of setup bar i
Window(d, i) == i .. Min(Len(d) - 1, i + WINDOW - 1)
SetMax(S) == CHOOSE x \in S : \A y \in S : y <= x
SetMin(S) == CHOOSE x \in S : \A y \in S : y >= x
\* lines 72-73
max_price(d, i) == SetMax({d[n + 1].high : n \in Window(d, i)})
min_price(d, i) == SetMin({d[n + 1].low : n \in Window(d, i)})

\* lines 76-83 and 132-139: whether the side has a setup at bar i, and its
\* three prices
Setup(side, d, i) ==
  LET start_price == d[i + 1].close
  IN  IF side = "SELL"
        THEN LET swing_high == max_price(d, i)
                 fib_range == swing_high - start_price
             IN  [move |-> (swing_high - start_price) * 10000 >= MOVE_PCT * start_price,
                  trigger_price |-> swing_high - (fib_range * TRIGGER_LEVEL) \div 1000,
                  tp_price |-> swing_high - (fib_range * TP_LEVEL) \div 1000,
                  sl_price |-> swing_high + swing_high \div 1000]
        ELSE LET swing_low == min_price(d, i)
                 fib_range == start_price - swing_low
             IN  [move |-> (start_price - swing_low) * 10000 >= MOVE_PCT * start_price,
                  trigger_price |-> swing_low + (fib_range * TRIGGER_LEVEL) \div 1000,
                  tp_price |-> swing_low + (fib_range * TP_LEVEL) \div 1000,
                  sl_price |-> swing_low - swing_low \div 1000]

\* lines 91 and 147, 95 and 151, 104-107 and 160-163
Arms(side, r, trigger_price) ==
  IF side = "SELL" THEN r.close < trigger_price ELSE r.close > trigger_price
Enters(side, r, trigger_price) ==
  IF side = "SELL" THEN r.high >= trigger_price ELSE r.low <= trigger_price
TpReached(side, r, tp_price) ==
  IF side = "SELL" THEN r.low <= tp_price ELSE r.high >= tp_price
SlReached(side, r, sl_price) ==
  IF side = "SELL" THEN r.high >= sl_price ELSE r.low <= sl_price

\* no bar entered the trade
NoEntry == 0 - 1
\* lines 86-95 and 142-151: the bar at which the side enters, from bar j on
RECURSIVE EntryFrom(_, _, _, _, _, _)
EntryFrom(side, d, day, trigger_price, j, armed) ==
  IF j >= Len(d) THEN NoEntry
  ELSE IF DateOf(d[j + 1].datetime) # day THEN NoEntry
  ELSE IF ~armed /\ Arms(side, d[j + 1], trigger_price)
    THEN EntryFrom(side, d, day, trigger_price, j + 1, TRUE)
  ELSE IF armed /\ Enters(side, d[j + 1], trigger_price) THEN j
  ELSE EntryFrom(side, d, day, trigger_price, j + 1, armed)
\* lines 100-107 and 156-163: the exit scan, from bar k on
RECURSIVE ExitFrom(_, _, _, _, _, _)
ExitFrom(side, d, day, tp_price, sl_price, k) ==
  IF k >= Len(d) THEN [outcome |-> "None", exit_price |-> 0, exit_time |-> 0]
  ELSE IF DateOf(d[k + 1].datetime) # day
    THEN [outcome |-> "None", exit_price |-> 0, exit_time |-> 0]
  ELSE IF TpReached(side, d[k + 1], tp_price)
    THEN [outcome |-> "TP", exit_price |-> tp_price,
          exit_time |-> d[k + 1].datetime]
  ELSE IF SlReached(side, d[k + 1], sl_price)
    THEN [outcome |-> "SL", exit_price |-> sl_price,
          exit_time |-> d[k + 1].datetime]
  ELSE ExitFrom(side, d, day, tp_price, sl_price, k + 1)
\* the last bar of date day, from bar j on
RECURSIVE LastOfDay(_, _, _)
LastOfDay(d, day, j) ==
  IF j + 1 < Len(d) /\ DateOf(d[j + 2].datetime) = day
    THEN LastOfDay(d, day, j + 1)
  ELSE j
\* (a changed copy: a trade without a hit closes at the last bar of its date)
EodRow_LastOfDay(d, day, j) == LastOfDay(d, day, j)
\* lines 110 and 166: r2 = df.iloc[j]
EodRow(d, day, j) == j
\* lines 97, 113 and 153, 169: pnl = move * lots with the size
\* lots = equity * RISK_PER_TRADE / max(stop distance, 1e-6)
TradePnl(move, eq, dist) ==
  IF dist > 0 THEN (move * eq * RISK_PER_TRADE) \div (100 * dist)
  ELSE move * eq * RISK_PER_TRADE * 10000
\* (a changed copy: no date is ever skipped)
DailyTpSkip_Never(last_tp_day, dt) == FALSE
\* line 64
DailyTpSkip(last_tp_day, dt) == last_tp_day = DateOf(dt)

\* lines 75-129 (side = "SELL") and 131-185 (side = "BUY"): the locals after
\* the side's block has run for setup bar st.i
SideBlock(side, st) ==
  LET d == st.df
      dt_row == d[st.i + 1].datetime
      day == DateOf(dt_row)
      su == Setup(side, d, st.i)
      j == IF su.move
             THEN EntryFrom(side, d, day, su.trigger_price, st.i + 1, FALSE)
           ELSE NoEntry
  IN  IF j = NoEntry THEN st
      ELSE
        LET entry == su.trigger_price
            hit == ExitFrom(side, d, day, su.tp_price, su.sl_price, j)
            r2 == d[EodRow(d, day, j) + 1]
            out == IF hit.outcome = "None"
                     THEN [outcome |-> "EOD", exit_price |-> r2.close,
                           exit_time |-> r2.datetime]
                   ELSE hit
            dist == IF side = "SELL" THEN su.sl_price - entry
                    ELSE entry - su.sl_price
            move == IF side = "SELL" THEN entry - out.exit_price
                    ELSE out.exit_price - entry
            pnl == TradePnl(move, st.equity, dist)
        IN  [st EXCEPT
               !.equity = @ + pnl,
               !.trades = Append(@, [side |-> side,
                                     entry_time |-> d[j + 1].datetime,
                                     entry |-> entry, sl |-> su.sl_price,
                                     tp |-> su.tp_price,
                                     exit_time |-> out.exit_time,
                                     exit |-> out.exit_price, pnl |-> pnl,
                                     reason |-> out.outcome]),
               !.last_tp_day = IF out.outcome = "TP" THEN day ELSE @,
               !.setups = Append(@, [i |-> st.i, j |-> j])]

\* the variables of testing.py's run_backtest
testing_vars ==
  <<returned, df, eof, pc, idx, equity, equity_curve, trades, daily_trades,
    daily_loss_stop, last_trade_day, sim, branch, hist, bars>>

\* lines 52-65: why setup bar st.i is passed over, if it is
Filter(st) ==
  LET dt_row == st.df[st.i + 1].datetime
  IN  IF Weekday(dt_row) \in {5, 6} THEN "weekend"
      ELSE IF TimeOfDay(dt_row) \notin TRADE_HOURS THEN "hours"
      ELSE IF DailyTpSkip(st.last_tp_day, dt_row) THEN "tp_day"
      ELSE "none"
AtSetupBar == bt.pc = "filter" /\ bt.i < Len(bt.df)

\* lines 55-65: continue
SkipSetupBar ==
  /\ AtSetupBar
  /\ Filter(bt) # "none"
  /\ bt' = [bt EXCEPT !.i = @ + 1,
                      !.passes = Append(@, [i |-> bt.i, why |-> Filter(bt)])]
  /\ UNCHANGED testing_vars
\* lines 67-129: the window and the SELL setup
SellSetup ==
  /\ AtSetupBar
  /\ Filter(bt) = "none"
  /\ bt' = [SideBlock("SELL", bt) EXCEPT !.pc = "buy"]
  /\ UNCHANGED testing_vars
\* lines 131-185: the BUY setup, then the next bar
BuySetup ==
  /\ bt.pc = "buy"
  /\ bt' = [SideBlock("BUY", bt) EXCEPT
              !.pc = "filter", !.i = @ + 1,
              !.passes = Append(@, [i |-> bt.i, why |-> "none"])]
  /\ UNCHANGED testing_vars

\* A frame of NRows rows whose first row is flat, and lines 47-49.
InitStrategy ==
  /\ \E f \in [1 .. NRows - 1 -> Bars], t0 \in FirstTimes, gap \in 0 .. NRows - 2 :
       bt = [pc |-> "filter",
             df |-> [n \in 1 .. NRows |->
                       LET b == IF n = 1 THEN [high |-> 100000, low |-> 100000,
                                               close |-> 100000]
                                ELSE f[n - 1]
                       IN  [datetime |-> TimeOfRow(t0, gap, n - 1),
                            high |-> b.high, low |-> b.low, close |-> b.close]],
             i |-> FIRST_SETUP,
             equity |-> INITIAL_BALANCE,
             trades |-> <<>>,
             last_tp_day |-> NoTpDay,
             setups |-> <<>>,
             passes |-> <<>>]
  /\ df = <<>>
  /\ eof = FALSE
  /\ pc = "off"
  /\ idx = 0
  /\ equity = initial_equity
  /\ equity_curve = <<>>
  /\ trades = <<>>
  /\ daily_trades = <<>>
  /\ daily_loss_stop = <<>>
  /\ last_trade_day = NoDay
  /\ sim = NoSim
  /\ branch = "init"
  /\ hist = <<>>
  /\ bars = <<>>
  /\ returned = <<>>

NextStrategy ==
  \/ SkipSetupBar
  \/ SellSetup
  \/ BuySetup

SpecStrategy == InitStrategy /\ [][NextStrategy]_vars

\* ---- helpers of the properties ----
RECURSIVE SumPnl(_, _)
\* the sum of the pnl of the first n logged trades
SumPnl(ts, n) == IF n = 0 THEN 0 ELSE SumPnl(ts, n - 1) + ts[n].pnl
Logged == 1 .. Len(trades)
\* the last row the forward scan of logged trade k visited
LastVisit(k) == hist[k].scanned[Len(hist[k].scanned)]

\* C1: after every trade is appended the running equity is initial_equity
\* plus the pnl of all trades logged so far; the equity each trade was booked
\* onto is initial_equity plus the pnl of the trades before it (so equity
\* changed nowhere in between), and the curve's last sample after a booking
\* carries that equity.
C1_EquityIsRunningSum ==
  /\ Len(hist) = Len(trades)
  /\ equity = initial_equity + SumPnl(trades, Len(trades))
  /\ \A k \in Logged :
       hist[k].equity_before = initial_equity + SumPnl(trades, k - 1)
  /\ branch = "closed" => equity_curve[Len(equity_curve)][2] = equity
C1_Witness ==
  /\ Len(trades) >= 2
  /\ \E k \in Logged : trades[k].pnl < 0
  /\ \E k \in Logged : trades[k].pnl > 0

\* C2: a BUY trade's scan visits the rows after the signal row in index
\* order; on every visited row that did not close it neither test fired
\* (low > target and low > the stop then in force); it closed on the first
\* row where one fired: as TP at the target when low <= target, otherwise as
\* SL at the stop when low <= stop.
C2_BuyFirstHit ==
  \A k \in Logged : trades[k].side = "BUY" =>
    LET sc == hist[k].scanned
        t == trades[k]
    IN  /\ \A q \in 1 .. Len(sc) : sc[q].j = hist[k].idx + q
        /\ \A q \in 1 .. Len(sc) :
             LET low == Row(sc[q].j).low
                 tpFires == low <= t.tp
                 slFires == low <= sc[q].sl
             IN  /\ (q < Len(sc) \/ t.reason = "NO_HIT") => ~tpFires /\ ~slFires
                 /\ (q = Len(sc) /\ t.reason = "TP") =>
                      /\ tpFires
                      /\ hist[k].exit_price = t.tp
                      /\ t.exit_time = Row(sc[q].j).datetime
                 /\ (q = Len(sc) /\ t.reason = "SL") =>
                      /\ ~tpFires /\ slFires
                      /\ hist[k].exit_price = sc[q].sl
                      /\ t.exit_time = Row(sc[q].j).datetime
        /\ t.reason \in {"TP", "SL"} => sc # <<>>
C2_Witness ==
  \E k \in Logged :
    /\ trades[k].side = "BUY"
    /\ trades[k].reason = "TP"
    /\ Len(hist[k].scanned) >= 2

\* C3: on each row a SELL trade's scan visits, take-profit triggers when
\* high >= target and otherwise stop-loss triggers when high >= stop; a SELL
\* trade is never closed as SL on a row whose high is below the stop.
C3_SellStopOnHigh ==
  \A k \in Logged : trades[k].side = "SELL" =>
    \A q \in 1 .. Len(hist[k].scanned) :
      LET e == hist[k].scanned[q]
          high == Row(e.j).high
      IN  /\ e.hit = "TP" <=> high >= trades[k].tp
          /\ e.hit = "SL" <=> (high < trades[k].tp /\ high >= e.sl)

\* C4 as stated: a trade whose scan hit neither TP nor SL closes with the
\* no-hit reason at the close and timestamp of the last row its scan visited.
C4_ClosesAtLastVisited ==
  \A k \in Logged : trades[k].reason = "NO_HIT" =>
    /\ hist[k].scanned # <<>>
    /\ hist[k].exit_price = Row(LastVisit(k).j).close
    /\ trades[k].exit_time = Row(LastVisit(k).j).datetime
\* C4 amended: a trade closes with the no-hit reason exactly when no visited
\* row hit TP or SL, and then at the close and timestamp of row
\* min(len - 1, idx + HORIZON - 1): the last visited row, or the signal row
\* itself when the scan visited nothing (the signal row is the last row).
C4_ClosesAtHorizonRow ==
  \A k \in Logged :
    LET sc == hist[k].scanned
        i == hist[k].idx
        e == IF sc = <<>> THEN i ELSE LastVisit(k).j
    IN  /\ trades[k].reason = "NO_HIT" <=> \A q \in 1 .. Len(sc) : sc[q].hit = "None"
        /\ trades[k].reason = "NO_HIT" =>
             /\ hist[k].exit_price = Row(e).close
             /\ trades[k].exit_time = Row(e).datetime
             /\ trades[k].pnl = Pnl(trades[k].side, trades[k].entry, Row(e).close,
                                    trades[k].lots)
             /\ e = i + HORIZON - 1 \/ (e = Len(df) - 1 /\ eof)
             /\ e < i + HORIZON
             /\ sc = <<>> => i = Len(df) - 1
C4_Witness ==
  \E k \in Logged :
    /\ trades[k].reason = "NO_HIT"
    /\ Len(hist[k].scanned) = HORIZON - 1
    /\ Len(df) > hist[k].idx + HORIZON
    /\ \E m \in Logged : trades[m].reason = "NO_HIT" /\ hist[m].scanned = <<>>


\* The trailing rule, read off the rows: sc is the visit log of one trade
\* (row, stop in force at its tests, outcome), moved the rows after which
\* the stop was moved.
TrailedOnce(side, entry, init_sl, lots, sc, moved) ==
  LET NonClosing == {q \in 1 .. Len(sc) : sc[q].hit = "None"}
      profit(q) == IF side = "BUY" THEN (Row(sc[q].j).close - entry) * lots
                   ELSE (entry - Row(sc[q].j).close) * lots
      Qualifies(q) == profit(q) >= Abs(entry - init_sl) * lots
      First == {q \in NonClosing :
                  Qualifies(q) /\ \A o \in NonClosing : o < q => ~Qualifies(o)}
  IN  /\ moved = {sc[q].j : q \in First}
      /\ Cardinality(moved) <= 1
      /\ \A q \in 1 .. Len(sc) :
           sc[q].sl = IF \E m \in moved : m < sc[q].j THEN entry ELSE init_sl

C6_StaysAtBreakeven ==
  /\ (pc \in {"scan", "close"} /\ sim.trailing_active) =>
       sim.target_sl = sim.entry_price
  /\ \A k \in Logged : hist[k].trailing_active =>
       /\ trades[k].sl = trades[k].entry
       /\ trades[k].reason = "SL" => trades[k].pnl = 0
C6_Witness ==
  /\ pc = "scan"
  /\ sim.trailing_active
  /\ sim.init_sl # sim.entry_price
  /\ \E m \in sim.moved : sim.j > m + 1

\* the pnl of the trades logged before trade k with the entry date of trade k
PriorDayPnl(k) == DayPnl(SubSeq(trades, 1, k - 1), Date(trades[k].entry_time))
\* the number of logged trades with entry date d
DayCount(d) == Cardinality({k \in Logged : Date(trades[k].entry_time) = d})
\* the row the outer loop has just finished, when it has finished one
JustDone == pc = "outer" /\ idx >= 1 /\ ~Warm(idx - 1)

\* C7: no trade is opened on a date whose logged trades already sum to a
\* loss of DAILY_MAX_LOSS_PCT of initial_equity or more; a row of such a date
\* is either the one whose trade crossed the limit or only appends a flat
\* equity sample.
C7_DailyLossStop ==
  /\ \A k \in Logged :
       PriorDayPnl(k) * 100 > 0 - initial_equity * DAILY_MAX_LOSS_PCT
  /\ (JustDone /\ DayPnl(trades, DayOf(idx - 1)) * 100
                    <= 0 - initial_equity * DAILY_MAX_LOSS_PCT) =>
       \/ branch = "closed" /\ hist[Len(hist)].idx = idx - 1
       \/ /\ branch = "loss_stop"
          /\ equity_curve[Len(equity_curve)] = <<Row(idx - 1).datetime, equity>>
C7_Witness ==
  /\ JustDone
  /\ branch = "loss_stop"
  /\ MakeSignal(df, idx - 1).side # "None"

\* C8: no date has more than DAILY_MAX_TRADES logged trades; the day's
\* counter is the number of trades logged for the date; no trade was opened
\* and no signal was evaluated on a row whose date had reached the cap.
C8_DailyTradeCap ==
  /\ \A d \in Dates : DayCount(d) <= DAILY_MAX_TRADES
  /\ \A d \in DOMAIN daily_trades : daily_trades[d] = DayCount(d)
  /\ \A k \in Logged : hist[k].day_trades_before < DAILY_MAX_TRADES
  /\ (JustDone /\ branch \in {"no_signal", "skip_size"}) =>
       DayCount(DayOf(idx - 1)) < DAILY_MAX_TRADES
  /\ pc \in {"scan", "close"} => DayCount(DayOf(idx)) < DAILY_MAX_TRADES
C8_Witness ==
  /\ JustDone
  /\ branch = "cap"
  /\ DayCount(DayOf(idx - 1)) = DAILY_MAX_TRADES
  /\ MakeSignal(df, idx - 1).side # "None"

\* C9: a signal whose stop distance |entry - stop| is not positive is
\* skipped: it is never simulated and never logged as a trade.
C9_ZeroDistanceSkipped ==
  /\ pc \in {"scan", "close"} => Abs(sim.entry_price - sim.init_sl) > 0
  /\ \A k \in Logged : Abs(trades[k].entry - hist[k].init_sl) > 0

\* the logged trades that closed at their initial stop
StoppedOut == {k \in Logged : trades[k].reason = "SL" /\ ~hist[k].trailing_active}
\* what trade k loses at its initial stop: |entry - stop| x size
StopLoss(k) == Abs(trades[k].entry - hist[k].init_sl) * trades[k].lots

\* C11 as stated: every trade that closes at its initial stop (reason SL,
\* trailing not activated) loses |entry - stop| x size, and that is at most
\* RISK_PER_TRADE of the equity the trade was sized on.
C11_LossWithinRisk ==
  \A k \in StoppedOut :
    /\ 0 - trades[k].pnl = StopLoss(k)
    /\ StopLoss(k) * 100 <= hist[k].equity_before * RISK_PER_TRADE
\* C11 amended: such a trade loses |entry - stop| x size; that is at most
\* RISK_PER_TRADE of the equity it was sized on whenever its size is above
\* one lot step, and a trade of exactly one lot step loses
\* |entry - stop| x LOT_STEP, whatever the equity.
C11_LossWithinRiskAboveMinimum ==
  \A k \in StoppedOut :
    /\ hist[k].exit_price = hist[k].init_sl
    /\ 0 - trades[k].pnl = StopLoss(k)
    /\ trades[k].lots > LOT_STEP =>
         StopLoss(k) * 100 <= hist[k].equity_before * RISK_PER_TRADE
    /\ trades[k].lots <= LOT_STEP =>
         StopLoss(k) = Abs(trades[k].entry - hist[k].init_sl) * LOT_STEP
C11_Witness ==
  \E k \in StoppedOut :
    /\ trades[k].lots > LOT_STEP
    /\ trades[k].pnl < 0
    /\ StopLoss(k) * 100 > hist[k].equity_before * (RISK_PER_TRADE - 1)

\* the raw size of logged trade k, in size units, rounded down
RawSize(k) ==
  (hist[k].equity_before * RISK_PER_TRADE)
    \div (100 * Abs(trades[k].entry - hist[k].init_sl))

\* C12: the size of every logged trade, and of the trade being simulated, is
\* strictly positive, at least LOT_STEP and a whole multiple of LOT_STEP.
C12_SizeIsWholeSteps ==
  /\ \A k \in Logged :
       /\ trades[k].lots > 0
       /\ trades[k].lots >= LOT_STEP
       /\ trades[k].lots % LOT_STEP = 0
  /\ pc \in {"scan", "close"} =>
       /\ sim.lots > 0
       /\ sim.lots >= LOT_STEP
       /\ sim.lots % LOT_STEP = 0
C12_Witness ==
  /\ \E k \in Logged :
       /\ trades[k].entry # hist[k].init_sl
       /\ trades[k].lots > LOT_STEP
       /\ RawSize(k) % LOT_STEP # 0
  /\ \E k \in Logged :
       /\ trades[k].entry # hist[k].init_sl
       /\ trades[k].lots = LOT_STEP
       /\ RawSize(k) < LOT_STEP

\* the finished passes of the outer loop that reached signal generation
Evaluated == {b \in 1 .. Len(bars) : bars[b].why \in {"no_signal", "skip_size", "closed"}}
\* the logged trades opened at row i
TradesAt(i) == {k \in Logged : hist[k].idx = i}
\* the close of row i is within the relative tolerance of the price of ratio
\* lvl (per mille) between the swing high and low of the window ending at i
Touches(i, lvl) ==
  LET sw == find_recent_swings(df, i)
      price1000 == 1000 * sw.swing_high - (sw.swing_high - sw.swing_low) * lvl
  IN  Abs(1000 * Row(i).close - price1000) * 1000 <= price1000 * FIB_TOL_PCT
TouchesAny(i) == \E n \in 1 .. Len(FIB_LEVELS) : Touches(i, FIB_LEVELS[n])

\* C13: a row that reaches signal generation and whose close touches a fib
\* level gives exactly one trade, a BUY, iff RSI <= RSI_OVERSOLD and fast EMA >
\* slow EMA, with entry = close, stop = swing_low - 0.5 x ATR and target =
\* entry + (entry - stop) x RR; exactly one trade, a SELL, iff RSI >=
\* RSI_OVERBOUGHT and fast EMA < slow EMA, with entry = close, stop =
\* swing_high + 0.5 x ATR and target = entry - (stop - entry) x RR; and
\* otherwise no signal and no trade.
C13_SignalRule ==
  \A b \in Evaluated :
    LET i == bars[b].idx
        row == Row(i)
        sw == find_recent_swings(df, i)
        buy == /\ TouchesAny(i) /\ Defined(row.rsi)
               /\ row.rsi <= RSI_OVERSOLD /\ row.ema50 > row.ema200
        sell == /\ TouchesAny(i) /\ Defined(row.rsi)
                /\ row.rsi >= RSI_OVERBOUGHT /\ row.ema50 < row.ema200
    IN  /\ buy =>
             /\ Cardinality(TradesAt(i)) = 1
             /\ \A k \in TradesAt(i) :
                  /\ trades[k].side = "BUY"
                  /\ trades[k].entry = row.close
                  /\ 2 * hist[k].init_sl = 2 * sw.swing_low - row.atr
                  /\ 10 * trades[k].tp
                       = 10 * row.close + (row.close - hist[k].init_sl) * RR
        /\ sell =>
             /\ Cardinality(TradesAt(i)) = 1
             /\ \A k \in TradesAt(i) :
                  /\ trades[k].side = "SELL"
                  /\ trades[k].entry = row.close
                  /\ 2 * hist[k].init_sl = 2 * sw.swing_high + row.atr
                  /\ 10 * trades[k].tp
                       = 10 * row.close - (hist[k].init_sl - row.close) * RR
        /\ (~buy /\ ~sell) => (TradesAt(i) = {} /\ bars[b].why = "no_signal")
\* a row that touches the 0.618 level only, with RSI 25 and fast EMA above
\* slow EMA, has given one BUY trade that the scan then resolved
C13_Witness ==
  \E k \in Logged :
    LET i == hist[k].idx
    IN  /\ Touches(i, 618) /\ ~Touches(i, 500)
        /\ Row(i).rsi = 25 /\ Row(i).ema50 > Row(i).ema200
        /\ trades[k].side = "BUY"
        /\ trades[k].entry # hist[k].init_sl
        /\ TradesAt(i) = {k}
        /\ hist[k].scanned # <<>>

\* the first of the ratios 0.618, 0.5, in that order, that row i touches
FirstTouched(i) == IF Touches(i, 618) THEN 618 ELSE 500

\* C14: a row gives at most one signal and at most one trade; the ratios are
\* tried in the order 0.618, 0.5 and the signal records the first one the
\* close touches; a row that reaches signal generation and touches no ratio
\* gives no trade.
C14_FirstRatioWins ==
  /\ \A k \in Logged : \A m \in Logged : hist[k].idx = hist[m].idx => k = m
  /\ \A k \in Logged :
       /\ Touches(hist[k].idx, hist[k].level)
       /\ hist[k].level = FirstTouched(hist[k].idx)
  /\ pc \in {"scan", "close"} =>
       /\ TradesAt(idx) = {}
       /\ Touches(idx, sim.level)
       /\ sim.level = FirstTouched(idx)
  /\ \A b \in Evaluated :
       ~(Touches(bars[b].idx, 618) \/ Touches(bars[b].idx, 500)) =>
         (TradesAt(bars[b].idx) = {} /\ bars[b].why = "no_signal")
\* a trade whose row touches both ratios, at different prices, and one whose
\* row touches 0.5 only
C14_Witness ==
  /\ \E k \in Logged :
       LET i == hist[k].idx
           sw == find_recent_swings(df, i)
       IN  /\ Touches(i, 618) /\ Touches(i, 500)
           /\ sw.swing_high # sw.swing_low
           /\ hist[k].level = 618
  /\ \E k \in Logged :
       /\ ~Touches(hist[k].idx, 618)
       /\ hist[k].level = 500

\* pass b was past the warm-up, neither daily gate blocked it, a signal was
\* generated and the sizer returned a positive size
Accepted(b) ==
  /\ bars[b].why \notin {"warmup", "loss_stop", "cap"}
  /\ bars[b].side # "None"
  /\ bars[b].lots > 0

\* C15: at every point of a run the trade log has as many records as there
\* are finished rows at which a signal was generated, neither daily gate
\* blocked and the sizer accepted; each such row appended exactly one trade
\* and every other row appended none.
C15_OneTradePerAcceptedSignal ==
  /\ Len(trades) = Cardinality({b \in 1 .. Len(bars) : Accepted(b)})
  /\ \A b \in 1 .. Len(bars) :
       Cardinality(TradesAt(bars[b].idx)) = IF Accepted(b) THEN 1 ELSE 0
  /\ \A k \in Logged : \E b \in 1 .. Len(bars) : bars[b].idx = hist[k].idx
C15_Witness ==
  /\ Len(trades) >= 2
  /\ \E b \in 1 .. Len(bars) :
       bars[b].why = "cap" /\ MakeSignal(df, bars[b].idx).side # "None"
  /\ \E b \in 1 .. Len(bars) : bars[b].why = "no_signal"
  /\ \E k \in Logged : trades[k].lots = LOT_STEP

\* the equity of the sample before sample n of the curve
PrevEquity(n) == IF n = 1 THEN initial_equity ELSE equity_curve[n - 1][2]

\* C16: the equity curve holds exactly one sample per processed row: when
\* the outer loop stands at row idx the curve has idx samples, sample i + 1
\* belonging to row i; a row that opened no trade gave (its timestamp, the
\* equity unchanged), a row that opened a trade gave (the trade's exit
\* timestamp, the equity plus the trade's pnl).
C16_OneSamplePerBar ==
  /\ Len(equity_curve) = idx
  /\ \A i \in 0 .. Len(equity_curve) - 1 :
       IF TradesAt(i) = {}
         THEN equity_curve[i + 1] = <<Row(i).datetime, PrevEquity(i + 1)>>
         ELSE \A k \in TradesAt(i) :
                equity_curve[i + 1]
                  = <<trades[k].exit_time, PrevEquity(i + 1) + trades[k].pnl>>
C16_Witness ==
  /\ Len(equity_curve) >= 4
  /\ \E i \in 1 .. Len(equity_curve) - 2 : \E k \in TradesAt(i) :
       /\ trades[k].pnl # 0
       /\ trades[k].exit_time > Row(i).datetime
       /\ TradesAt(i + 1) = {}
       /\ equity_curve[i + 2] = <<Row(i + 1).datetime, equity_curve[i + 1][2]>>

\* the outer loop is about to process a row past the warm-up whose date has
\* its loss-stop flag set or has reached the trade cap
GateClosed ==
  /\ OuterReady
  /\ ~Warm(idx)
  /\ \/ Get(daily_loss_stop, DayOf(idx), FALSE)
     \/ Get(daily_trades, DayOf(idx), 0) >= DAILY_MAX_TRADES

\* C17: a row processed while its date's loss-stop flag is set or its date's
\* trade count has reached the cap leaves the equity, the trade log, the
\* per-day counters and the loss-stop flags as they are, opens no trade, and
\* appends one sample (the row's timestamp, the unchanged equity) before the
\* loop moves to the next row.
C17_GatedBarOnlySamples ==
  [][GateClosed =>
       /\ equity' = equity
       /\ trades' = trades
       /\ daily_trades' = daily_trades
       /\ daily_loss_stop' = daily_loss_stop
       /\ equity_curve' = Append(equity_curve, <<Row(idx).datetime, equity>>)
       /\ pc' = "outer"
       /\ idx' = idx + 1]_vars
\* two rows in a row were blocked by a gate although each had a signal
C17_Witness ==
  /\ Len(bars) >= 2
  /\ \A b \in {Len(bars) - 1, Len(bars)} :
       /\ bars[b].why \in {"loss_stop", "cap"}
       /\ MakeSignal(df, bars[b].idx).side # "None"
  /\ equity # initial_equity

\* the row at which logged trade k was closed
ExitRow(k) ==
  IF hist[k].scanned = <<>> THEN hist[k].idx
  ELSE IF trades[k].reason = "NO_HIT" THEN hist[k].last_idx ELSE LastVisit(k).j

\* C18: the outer loop passes over every row in turn, also after a trade:
\* pass number b handled row b - 1, and once the trade opened at row i is
\* booked the loop stands at row i + 1, wherever the trade's scan ended; a
\* row between a trade's entry row and its exit row that has a signal and is
\* not blocked by a gate opens a trade of its own.
C18_NoSkipAhead ==
  /\ idx = Len(bars)
  /\ \A b \in 1 .. Len(bars) : bars[b].idx = b - 1
  /\ (pc = "outer" /\ branch = "closed") => hist[Len(hist)].idx = idx - 1
  /\ \A k \in Logged : \A b \in 1 .. Len(bars) :
       (/\ hist[k].idx < bars[b].idx
        /\ bars[b].idx <= ExitRow(k)
        /\ bars[b].why \notin {"warmup", "loss_stop", "cap"}
        /\ bars[b].side # "None")
         => Cardinality(TradesAt(bars[b].idx)) = 1
\* two trades whose entry-to-exit intervals overlap: the second was opened
\* at a row strictly between the entry and the exit of the first
C18_Witness ==
  \E k \in Logged : \E m \in Logged :
    /\ hist[k].idx < hist[m].idx
    /\ hist[m].idx < ExitRow(k)
    /\ trades[m].entry_time < trades[k].exit_time

\* C19: the forward scan of a trade opened at row i visits only rows after
\* i, in increasing order, at most HORIZON of them; a trade that hit neither
\* TP nor SL has visited HORIZON rows, i + 1 .. i + HORIZON, unless the
\* series has no row after the last one it visited.
C19_ScansHorizonBars ==
  \A k \in Logged :
    LET sc == hist[k].scanned
        i == hist[k].idx
    IN  /\ \A q \in 1 .. Len(sc) : sc[q].j = i + q
        /\ Len(sc) <= HORIZON
        /\ trades[k].reason = "NO_HIT" =>
             \/ Len(sc) = HORIZON
             \/ Len(df) <= i + Len(sc) + 1

\* the window of C20: the SWING_LOOKBACK rows that end at row i, fewer near
\* the start of the series
LookbackRows(i) == Max(0, i - SWING_LOOKBACK + 1) .. i

\* C20: for the row the outer loop is about to evaluate, find_recent_swings
\* looks at a window that ends at that row and holds at most SWING_LOOKBACK
\* rows, and returns the greatest high and the least low of exactly those
\* rows with the indices where they occur; so the stop of every logged trade
\* is half an ATR beyond the extreme of those rows.
C20_WindowHoldsLookbackBars ==
  /\ (OuterReady /\ ~Warm(idx)) =>
       LET sw == find_recent_swings(df, idx)
       IN  /\ Cardinality(SwingWindow(idx)) <= SWING_LOOKBACK
           /\ SwingWindow(idx) = LookbackRows(idx)
           /\ sw.hi_idx \in LookbackRows(idx)
           /\ sw.lo_idx \in LookbackRows(idx)
           /\ sw.swing_high = Row(sw.hi_idx).high
           /\ sw.swing_low = Row(sw.lo_idx).low
           /\ \A m \in LookbackRows(idx) :
                Row(m).high <= sw.swing_high /\ Row(m).low >= sw.swing_low
  /\ \A k \in Logged :
       LET i == hist[k].idx
       IN  /\ trades[k].side = "BUY" =>
                \E m \in LookbackRows(i) :
                  /\ 2 * hist[k].init_sl = 2 * Row(m).low - Row(i).atr
                  /\ \A o \in LookbackRows(i) : Row(o).low >= Row(m).low
           /\ trades[k].side = "SELL" =>
                \E m \in LookbackRows(i) :
                  /\ 2 * hist[k].init_sl = 2 * Row(m).high + Row(i).atr
                  /\ \A o \in LookbackRows(i) : Row(o).high <= Row(m).high

\* the loop stands at a row whose indicators are not available
Unavailable == OuterReady /\ (Warm(idx) \/ ~Defined(Row(idx).rsi))

\* C21: a row inside the warm-up, or a row whose RSI is undefined because the
\* average loss of its window is zero, is passed as a row without signal: no
\* trade is opened or logged, the equity, every date's trade count and every
\* date's loss-stop flag keep their values, and one sample (the row's
\* timestamp, the unchanged equity) is appended before the loop moves on.
C21_UnavailableIsNoSignal ==
  [][Unavailable =>
       /\ equity' = equity
       /\ trades' = trades
       /\ sim' = sim
       /\ \A d \in Dates :
            /\ Get(daily_trades', d, 0) = Get(daily_trades, d, 0)
            /\ Get(daily_loss_stop', d, FALSE) = Get(daily_loss_stop, d, FALSE)
       /\ equity_curve' = Append(equity_curve, <<Row(idx).datetime, equity>>)
       /\ pc' = "outer"
       /\ idx' = idx + 1]_vars
\* after a warm-up row and a booked trade, a row that touches a fib level in
\* an up-trend was passed without signal only because its RSI is undefined
C21_Witness ==
  /\ Len(bars) >= 2
  /\ bars[1].why = "warmup"
  /\ Len(trades) >= 1
  /\ equity # initial_equity
  /\ LET b == bars[Len(bars)]
     IN  /\ b.why = "no_signal"
         /\ Row(b.idx).rsi = RsiOf(1, 0)
         /\ TouchesAny(b.idx)
         /\ Row(b.idx).ema50 > Row(b.idx).ema200
         /\ equity_curve[Len(equity_curve)] = <<Row(b.idx).datetime, equity>>

StrictlyIncreasing ==
  \A i \in 1 .. Len(df) - 1 : df[i].datetime < df[i + 1].datetime

\* C23: on rows with strictly increasing timestamps the equity curve is
\* ordered in time: no sample, flat or stamped with a trade's exit time, is
\* followed by a sample with an earlier timestamp.
C23_CurveOrderedInTime ==
  StrictlyIncreasing =>
    \A n \in 1 .. Len(equity_curve) - 1 :
      equity_curve[n][1] <= equity_curve[n + 1][1]

\* every row read so far has low <= close <= high and atr >= 0
WellFormed ==
  \A i \in 1 .. Len(df) :
    df[i].low <= df[i].close /\ df[i].close <= df[i].high /\ df[i].atr >= 0
\* the prices of a signal of side s are in order
Ordered(s, entry, sl, tp) ==
  IF s = "BUY" THEN sl <= entry /\ entry <= tp
  ELSE tp <= entry /\ entry <= sl

\* C24: on rows with low <= close <= high and atr >= 0 every signal has its
\* prices in order, stop <= entry <= target for a BUY and target <= entry <=
\* stop for a SELL, both for the trade being simulated and for every logged
\* trade; and no row scanned for a BUY trade takes the branch
\* "high >= stop and stop > entry" (it is reached when the TP test failed).
C24_SignalPricesOrdered ==
  WellFormed =>
    /\ pc \in {"scan", "close"} =>
         Ordered(sim.side, sim.entry_price, sim.init_sl, sim.target_tp)
    /\ \A k \in Logged :
         /\ Ordered(trades[k].side, trades[k].entry, hist[k].init_sl, trades[k].tp)
         /\ trades[k].side = "BUY" =>
              \A q \in 1 .. Len(hist[k].scanned) :
                LET sc == hist[k].scanned[q]
                IN  \/ BuyTpHit(Row(sc.j).low, trades[k].tp)
                    \/ ~BuyUnusualSlHit(Row(sc.j).high, sc.sl, trades[k].entry)
\* a BUY and a SELL are logged, each with its stop strictly on the far side
\* of the entry, and a row scanned for the BUY failed the TP test with its
\* high at or above the stop
C24_Witness ==
  /\ \E k \in Logged :
       /\ trades[k].side = "BUY"
       /\ hist[k].init_sl < trades[k].entry
       /\ \E q \in 1 .. Len(hist[k].scanned) :
            LET sc == hist[k].scanned[q]
            IN  /\ ~BuyTpHit(Row(sc.j).low, trades[k].tp)
                /\ Row(sc.j).high >= sc.sl
  /\ \E k \in Logged :
       /\ trades[k].side = "SELL"
       /\ trades[k].tp < trades[k].entry
       /\ trades[k].entry < hist[k].init_sl

\* C25: no BUY trade closes with reason SL, and a BUY trade closed by the
\* TP or the SL test has no negative pnl: a BUY trade ends as TP or as the
\* no-hit close, also on a row whose low is at or below its stop, because
\* the stop (moved to entry or not) is never above the target and the TP
\* test low <= target comes first.
C25_BuyNeverStopsOut ==
  \A k \in Logged : trades[k].side = "BUY" =>
    /\ trades[k].reason \in {"TP", "NO_HIT"}
    /\ trades[k].reason \in {"TP", "SL"} => trades[k].pnl >= 0
    /\ \A q \in 1 .. Len(hist[k].scanned) :
         LET sc == hist[k].scanned[q]
         IN  /\ sc.sl <= trades[k].tp
             /\ BuySlHit(Row(sc.j).low, sc.sl) => sc.hit = "TP"
\* a BUY closed as TP with a gain on a row whose low was below its stop,
\* and another BUY closed as TP on a row below the stop moved to its entry
C25_Witness ==
  /\ \E k \in Logged :
       /\ trades[k].side = "BUY" /\ trades[k].reason = "TP"
       /\ trades[k].pnl > 0
       /\ ~hist[k].trailing_active
       /\ Row(LastVisit(k).j).low < LastVisit(k).sl
  /\ \E k \in Logged :
       /\ trades[k].side = "BUY" /\ trades[k].reason = "TP"
       /\ hist[k].trailing_active
       /\ LastVisit(k).sl = trades[k].entry
       /\ Row(LastVisit(k).j).low < trades[k].entry

\* C26: a SELL trade whose signal row is not the last row closes on the
\* first scanned row, the one after the signal row: as TP at the target if
\* that row's high >= target, and otherwise as SL at the stop as generated;
\* so no SELL trade has its stop moved and none ends as a no-hit close after
\* a scan.  Only a SELL signal on the last row has an empty scan.
C26_SellClosesOnFirstBar ==
  \A k \in Logged : trades[k].side = "SELL" =>
    LET sc == hist[k].scanned
        t == trades[k]
    IN  /\ sc = <<>> => (eof /\ hist[k].idx + 1 = Len(df) /\ t.reason = "NO_HIT")
        /\ hist[k].idx + 1 < Len(df) => sc # <<>>
        /\ sc # <<>> =>
             /\ Len(sc) = 1
             /\ sc[1].j = hist[k].idx + 1
             /\ t.exit_time = Row(sc[1].j).datetime
             /\ IF Row(sc[1].j).high >= t.tp
                  THEN t.reason = "TP" /\ hist[k].exit_price = t.tp
                  ELSE t.reason = "SL" /\ hist[k].exit_price = hist[k].init_sl
             /\ ~hist[k].trailing_active
             /\ hist[k].moved = {}
             /\ t.sl = hist[k].init_sl
\* with rows left after the exit row, one SELL closed as SL on its first
\* scanned row although that row's high stayed below the target and the
\* stop, and one SELL closed as TP
C26_Witness ==
  /\ \E k \in Logged :
       /\ trades[k].side = "SELL" /\ trades[k].reason = "SL"
       /\ hist[k].idx + 2 < Len(df)
       /\ Row(hist[k].idx + 1).high < trades[k].tp
       /\ trades[k].tp < hist[k].init_sl
  /\ \E k \in Logged :
       /\ trades[k].side = "SELL" /\ trades[k].reason = "TP"
       /\ hist[k].idx + 2 < Len(df)

\* C27: a signal accepted on the last row of the series has an empty forward
\* scan; its trade is logged all the same and raises its date's trade count by
\* one, and it closes with the no-hit reason at the signal row's own close,
\* with exit time equal to entry time and pnl 0.  Every other trade scanned
\* at least one row and has an exit time strictly later than its entry time.
C27_LastBarTrade ==
  \A k \in Logged :
    LET t == trades[k]
        i == hist[k].idx
    IN  /\ (eof /\ i = Len(df) - 1) <=> hist[k].scanned = <<>>
        /\ hist[k].scanned = <<>> =>
             /\ k = Len(trades)
             /\ t.reason = "NO_HIT"
             /\ hist[k].exit_price = Row(i).close
             /\ t.entry = Row(i).close
             /\ t.exit_time = t.entry_time
             /\ t.pnl = 0
             /\ Get(daily_trades, DayOf(i), 0) = hist[k].day_trades_before + 1
        /\ hist[k].scanned # <<>> => t.exit_time > t.entry_time
\* the last row opened a trade with a stop away from its entry, on a date
\* that already had a trade, and an earlier trade ended as a no-hit close
\* on a later row than its own
C27_Witness ==
  /\ Done
  /\ Len(trades) >= 2
  /\ LET k == Len(trades)
     IN  /\ hist[k].scanned = <<>>
         /\ hist[k].init_sl # trades[k].entry
         /\ hist[k].day_trades_before >= 1
         /\ daily_trades[DayOf(hist[k].idx)] = hist[k].day_trades_before + 1
  /\ \E k \in Logged :
       /\ trades[k].reason = "NO_HIT"
       /\ trades[k].exit_time > trades[k].entry_time

RECURSIVE PnlOpenedBefore(_, _)
\* the pnl of those of the first n logged trades that were opened before row i
PnlOpenedBefore(i, n) ==
  IF n = 0 THEN 0
  ELSE PnlOpenedBefore(i, n - 1) + (IF hist[n].idx < i THEN trades[n].pnl ELSE 0)
\* the equity the loop holds when it reaches row i, by the claim
EquityAtBar(i) == initial_equity + PnlOpenedBefore(i, Len(trades))
\* logged trades opened before row i that had not yet exited at row i
OpenAcross(i) ==
  {k \in Logged : hist[k].idx < i /\ trades[k].exit_time > Row(i).datetime}

\* C28: the equity a trade opened at row i is sized from, and the equity of
\* the flat sample of a row i that opened no trade, is initial_equity plus
\* the pnl of every trade opened at a row before i, whether or not that
\* trade's exit time is later than row i's timestamp.
C28_PnlBookedAtEntryBar ==
  /\ \A k \in Logged :
       /\ hist[k].equity_before = EquityAtBar(hist[k].idx)
       /\ trades[k].lots
            = calc_lots_from_risk(EquityAtBar(hist[k].idx), trades[k].entry,
                                  hist[k].init_sl)
  /\ \A b \in 1 .. Len(bars) : bars[b].why # "closed" =>
       equity_curve[b] = <<Row(bars[b].idx).datetime, EquityAtBar(bars[b].idx)>>
\* a trade with a gain or a loss was still open, by its exit time, at a
\* later row that opened a trade, sized from an equity other than the
\* starting equity; and a row after a trade with a gain or a loss gave a flat
\* sample
C28_Witness ==
  /\ \E n \in Logged :
       /\ \E k \in OpenAcross(hist[n].idx) : trades[k].pnl # 0
       /\ hist[n].equity_before # initial_equity
  /\ \E b \in 1 .. Len(bars) :
       /\ bars[b].why # "closed"
       /\ \E k \in Logged : hist[k].idx < bars[b].idx /\ trades[k].pnl # 0

\* ---- backtest_strategy.py ----
BtLogged == 1 .. Len(bt.trades)
\* the setup bar of logged trade k, and its date
SetupOf(k) == bt.setups[k].i
SetupDate(k) == DateOf(bt.df[SetupOf(k) + 1].datetime)
\* the side has an entry for setup bar i
HasEntry(side, i) ==
  LET su == Setup(side, bt.df, i)
  IN  /\ su.move
      /\ EntryFrom(side, bt.df, DateOf(bt.df[i + 1].datetime), su.trigger_price,
                   i + 1, FALSE) # NoEntry
\* the passes over setup bars on a weekday at one of the trade times
TimedPasses ==
  {b \in 1 .. Len(bt.passes) : bt.passes[b].why \in {"tp_day", "none"}}
\* a trade of an earlier setup bar of the date of setup bar i closed as TP
TpEarlierThatDay(i) ==
  \E a \in BtLogged :
    /\ bt.trades[a].reason = "TP"
    /\ SetupOf(a) < i
    /\ SetupDate(a) = DateOf(bt.df[i + 1].datetime)

\* C29: once a trade whose setup bar has date D has closed as TP, no later
\* setup bar of date D opens a trade: it is passed over, and only such a bar
\* is; a setup bar that follows only SL and EOD trades of its date, or none,
\* opens a trade for each side that has an entry; and so does the BUY side of
\* a setup bar whose SELL trade has just closed as TP.
C29_DailyTpSkip ==
  /\ \A a, b \in BtLogged :
       (bt.trades[a].reason = "TP" /\ SetupOf(b) > SetupOf(a))
         => SetupDate(b) # SetupDate(a)
  /\ \A p \in TimedPasses :
       LET i == bt.passes[p].i
       IN  /\ bt.passes[p].why = "tp_day" <=> TpEarlierThatDay(i)
           /\ bt.passes[p].why = "none" =>
                \A side \in {"SELL", "BUY"} :
                  HasEntry(side, i)
                    <=> \E k \in BtLogged :
                          SetupOf(k) = i /\ bt.trades[k].side = side
\* a setup bar whose SELL trade closed as TP also opened its BUY trade, and
\* a later setup bar of the same date, which has an entry, was passed over
C29_Witness ==
  /\ \E a, b \in BtLogged :
       /\ SetupOf(a) = SetupOf(b)
       /\ bt.trades[a].side = "SELL" /\ bt.trades[a].reason = "TP"
       /\ bt.trades[b].side = "BUY"
       /\ a < b
       /\ \E p \in TimedPasses :
            /\ bt.passes[p].i > SetupOf(a)
            /\ bt.passes[p].why = "tp_day"
            /\ HasEntry("SELL", bt.passes[p].i)

\* the bars from bar j to the end of the date of bar j (or of the data)
RestOfDay(j) == j .. LastOfDay(bt.df, DateOf(bt.df[j + 1].datetime), j)

\* C30: a trade closes with outcome EOD exactly when no bar from its entry
\* bar to the end of the setup date (or of the data) reaches its TP or its
\* SL, and then it closes at the close of its own entry bar with exit time
\* equal to entry time; every trade's entry and exit time lie on the date of
\* its setup bar.
C30_EodAtEntryBar ==
  \A k \in BtLogged :
    LET t == bt.trades[k]
        j == bt.setups[k].j
        nohit == \A n \in RestOfDay(j) :
                   /\ ~TpReached(t.side, bt.df[n + 1], t.tp)
                   /\ ~SlReached(t.side, bt.df[n + 1], t.sl)
    IN  /\ t.reason = "EOD" <=> nohit
        /\ t.reason = "EOD" =>
             /\ t.exit = bt.df[j + 1].close
             /\ t.exit_time = bt.df[j + 1].datetime
             /\ t.exit_time = t.entry_time
        /\ DateOf(t.entry_time) = SetupDate(k)
        /\ DateOf(t.exit_time) = SetupDate(k)
        /\ t.entry_time = bt.df[j + 1].datetime
\* an EOD trade whose date went on after its entry bar and ended on a bar
\* with another close
C30_Witness ==
  \E k \in BtLogged :
    LET j == bt.setups[k].j
        last == LastOfDay(bt.df, SetupDate(k), j)
    IN  /\ bt.trades[k].reason = "EOD"
        /\ last > j
        /\ bt.df[last + 1].close # bt.df[j + 1].close

\* ---- calc_lots_from_risk on its own ----
\* The equities (money units) and the prices the sizer is applied to.
SizerEquities == {0 - 300000, 0, 40000, 550000, 10000000, 123457000}
SizerPrices == {700, 890, 950, 1000, 1010, 6000}

InitLots ==
  /\ df = <<>>
  /\ eof = FALSE
  /\ pc = "size"
  /\ idx = 0
  /\ equity \in SizerEquities
  /\ equity_curve = <<>>
  /\ trades = <<>>
  /\ daily_trades = <<>>
  /\ daily_loss_stop = <<>>
  /\ last_trade_day = NoDay
  /\ \E entry \in SizerPrices, sl \in SizerPrices :
       sim = [NoSim EXCEPT !.entry_price = entry, !.target_sl = sl, !.init_sl = sl]
  /\ branch = "init"
  /\ hist = <<>>
  /\ bars = <<>>
  /\ returned = <<>>
  /\ bt = NoRun

\* lots = calc_lots_from_risk(equity, signal["entry"], signal["sl"])
SizePosition ==
  /\ pc = "size"
  /\ sim' = [sim EXCEPT !.lots = calc_lots_from_risk(equity, sim.entry_price,
                                                     sim.target_sl)]
  /\ pc' = "sized"
  /\ UNCHANGED <<bt, returned, df, eof, idx, equity, equity_curve, trades, daily_trades,
                 daily_loss_stop, last_trade_day, branch, hist, bars>>

NextLots == SizePosition

SpecLots == InitLots /\ [][NextLots]_vars

Sized == pc = "sized" /\ Abs(sim.entry_price - sim.target_sl) > 0
\* the raw risk-implied size equity x RISK_PER_TRADE / |entry - stop|, times
\* 100 x |entry - stop|
RawTimes == equity * RISK_PER_TRADE
SizeTimes(lots) == lots * 100 * Abs(sim.entry_price - sim.target_sl)

\* C10 as stated: for every equity, entry and stop with positive stop
\* distance the returned size never exceeds the raw risk-implied size.
C10_NeverAboveRaw ==
  Sized => SizeTimes(sim.lots) <= RawTimes
\* C10 amended: the returned size never exceeds the larger of the raw
\* risk-implied size and one lot step: it is the raw size floored to the lot
\* step (never rounded up), raised to one lot step when the floor is less.
C10_FlooredOrMinimum ==
  Sized =>
    /\ sim.lots >= LOT_STEP
    /\ sim.lots > LOT_STEP => SizeTimes(sim.lots) <= RawTimes
    /\ SizeTimes(sim.lots + LOT_STEP) > RawTimes
C10_Witness ==
  /\ Sized
  /\ sim.lots > LOT_STEP
  /\ SizeTimes(sim.lots) < RawTimes


=============================================================================
